---- MODULE Spec2Model ----
(***************************************************************************)
(* Chat statistics: the calendar-day pipeline (src/src/main.py,            *)
(* ChatAnalyzer.analyze_chat and main), the rolling fixed-width pipeline   *)
(* (src/main.py, module-level script) and the per-day top-words ranking.   *)
(*                                                                         *)
(* Strings are modelled by what the code looks at:                         *)
(*   - a date string is its day and hour fields; strptime accepts it iff   *)
(*     the hour is in 0..23;                                               *)
(*   - a text is the sequence of its words (what re.findall / str.split    *)
(*     return);                                                            *)
(*   - a path is its directory, base name and extension;                   *)
(*   - a JSON object is a record plus the set `keys` of the keys it has.   *)
(***************************************************************************)
EXTENDS Integers, Sequences, FiniteSets, TLC

VARIABLES
    data,                       \* calendar-day: data["messages"] as loaded
    messages,                   \* calendar-day: the sorted list
    daily_counts,               \* (date, sender) -> {'messages','words','tokens'}
    unrecognized_voice_count,
    voice_tasks,                \* scheduled (message_date, sender, voice_path)
    i,                          \* number of messages the first loop has taken
    j,                          \* number of voice tasks the second loop has awaited
    pc,                         \* "load" | "ingest" | "merge" | "done" | "aborted"
    error,                      \* the exception that ended the run, or "none"
    \* the rolling script (it shares data, i, pc, error and
    \* unrecognized_voice_count, which it names the same)
    messages_sorted,
    start_date,
    periods,
    period_counts,
    current_period,
    current_period_end,
    \* main's ranking of one day
    all_tokens,
    top_n,
    top_words

daily_vars == <<messages, daily_counts, voice_tasks, j>>

rolling_vars == <<messages_sorted, start_date, periods, period_counts,
                  current_period, current_period_end>>

ranking_vars == <<all_tokens, top_n, top_words>>

vars == <<data, i, pc, error, unrecognized_voice_count,
          daily_vars, rolling_vars, ranking_vars>>

-----------------------------------------------------------------------------
(* Bounds of the model *)

MaxMsgs == 2

MaxRollMsgs == 3

MaxTokens == 6

-----------------------------------------------------------------------------
(* Generic helpers *)

RECURSIVE SetSum(_, _)
SetSum(S, f) ==
    IF S = {} THEN 0
    ELSE LET x == CHOOSE y \in S : TRUE IN f[x] + SetSum(S \ {x}, f)

SeqsUpTo(S, n) == UNION { [1..k -> S] : k \in 0..n }

-----------------------------------------------------------------------------
(* The linguistic resources: stopwords and the morphological analyser *)

HoursPerDay == 24

lower(word) ==
    CASE word = "Cats" -> "cats"
      [] OTHER -> word

stopwords == {"and"}

\* morph.parse(token)[0]: the tag's part of speech and the normal form
morph_parse(token) ==
    CASE token = "cats" -> [tag |-> "NOUN", normal_form |-> "cat"]
      [] token = "runs" -> [tag |-> "VERB", normal_form |-> "run"]
      [] token = "very" -> [tag |-> "ADVB", normal_form |-> "very"]
      [] OTHER          -> [tag |-> "CONJ", normal_form |-> token]

RECURSIVE tokenize_and_lemmatize(_)
tokenize_and_lemmatize(text) ==
    IF text = <<>> THEN <<>>
    ELSE LET token  == lower(Head(text))
             parsed == morph_parse(token)
             rest   == tokenize_and_lemmatize(Tail(text))
         IN  IF token \in stopwords THEN rest
             ELSE IF parsed.tag \in {"NOUN", "VERB", "ADJS", "ADJF"}
                  THEN <<parsed.normal_form>> \o rest
                  ELSE rest

-----------------------------------------------------------------------------
(* Dates *)

strptime_ok(date_str) == date_str.hour \in 0..(HoursPerDay - 1)

parse_date_lenient(date_str) ==
    [raised |-> FALSE, value |-> date_str.day * HoursPerDay + date_str.hour]

\* parse_date: the datetime (in hours), or the ValueError re-raised
parse_date(date_str) ==
    IF strptime_ok(date_str)
    THEN [raised |-> FALSE, value |-> date_str.day * HoursPerDay + date_str.hour]
    ELSE [raised |-> TRUE,  value |-> 0]

\* datetime.date()
date_of(dt) == dt \div HoursPerDay

-----------------------------------------------------------------------------
(* The transcript files on disk *)

voice_ogg(name) == [dir |-> "voice_messages", name |-> name, ext |-> ".ogg"]

\* voice_path.replace("voice_messages", "voice_messages_txt").replace(".ogg", ".txt")
txt_path_of(voice_path) ==
    [dir  |-> IF voice_path.dir = "voice_messages" THEN "voice_messages_txt"
              ELSE voice_path.dir,
     name |-> voice_path.name,
     ext  |-> IF voice_path.ext = ".ogg" THEN ".txt" ELSE voice_path.ext]

\* The files that exist, with their content: 1.txt and 4.txt carry words
\* that survive tokenization, 3.txt only a stopword, 2.txt does not exist.
disk_files ==
    { [path |-> [dir |-> "voice_messages_txt", name |-> "1", ext |-> ".txt"],
       content |-> <<"Cats", "and", "runs">>],
      [path |-> [dir |-> "voice_messages_txt", name |-> "3", ext |-> ".txt"],
       content |-> <<"and">>],
      [path |-> [dir |-> "voice_messages_txt", name |-> "4", ext |-> ".txt"],
       content |-> <<"runs">>] }

isfile(path) == \E f \in disk_files : f.path = path

read_file(path) == (CHOOSE f \in disk_files : f.path = path).content

\* process_voice_message: [] when the transcript is missing
process_voice_message(voice_path) ==
    LET txt_path == txt_path_of(voice_path)
    IN  IF ~isfile(txt_path) THEN <<>>
        ELSE tokenize_and_lemmatize(read_file(txt_path))

-----------------------------------------------------------------------------
(* The input batch *)

NoPath == [dir |-> "", name |-> "", ext |-> ""]

DateStrings ==
    { [day |-> 1, hour |-> 10], [day |-> 2, hour |-> 9], [day |-> 1, hour |-> 24] }

\* text shapes: a plain string, a list of segments, or anything else ("other":
\* null, a number, an object)
SegStr(ws)    == [kind |-> "str",  keys |-> {},       text |-> ws]
SegEntity(ws) == [kind |-> "dict", keys |-> {"text"}, text |-> ws]
SegNoText     == [kind |-> "dict", keys |-> {"type"}, text |-> <<>>]

TextStr(ws)   == [shape |-> "str",   segs |-> <<SegStr(ws)>>]
TextList(ss)  == [shape |-> "list",  segs |-> ss]
TextOther     == [shape |-> "other", segs |-> <<>>]

\* (keys, media_type, file, text) of a message, apart from date and from
Contents ==
    { [keys |-> {"text"}, media_type |-> "", file |-> NoPath,
       text |-> TextStr(<<"Cats", "very", "runs">>)],
      [keys |-> {}, media_type |-> "", file |-> NoPath,
       text |-> TextStr(<<>>)],
      [keys |-> {"text"}, media_type |-> "", file |-> NoPath,
       text |-> TextList(<<SegStr(<<"runs">>), SegEntity(<<"Cats">>)>>)],
      [keys |-> {"text"}, media_type |-> "", file |-> NoPath,
       text |-> TextList(<<SegNoText>>)],
      [keys |-> {"text"}, media_type |-> "", file |-> NoPath,
       text |-> TextOther],
      [keys |-> {"text", "media_type", "file"}, media_type |-> "voice_message",
       file |-> voice_ogg("1"), text |-> TextStr(<<>>)],
      [keys |-> {"text", "media_type", "file"}, media_type |-> "voice_message",
       file |-> voice_ogg("2"), text |-> TextStr(<<>>)],
      [keys |-> {"text", "media_type", "file"}, media_type |-> "voice_message",
       file |-> voice_ogg("3"), text |-> TextStr(<<>>)],
      [keys |-> {"text", "media_type", "file"}, media_type |-> "voice_message",
       file |-> voice_ogg("4"), text |-> TextStr(<<>>)],
      [keys |-> {"text", "media_type"}, media_type |-> "voice_message",
       file |-> NoPath, text |-> TextStr(<<>>)] }

Froms == { [has |-> TRUE, name |-> "A"], [has |-> FALSE, name |-> ""] }

Messages ==
    { [keys       |-> c.keys \cup {"date"} \cup (IF f.has THEN {"from"} ELSE {}),
       date       |-> d,
       from       |-> f.name,
       media_type |-> c.media_type,
       file       |-> c.file,
       text       |-> c.text] : d \in DateStrings, f \in Froms, c \in Contents }

-----------------------------------------------------------------------------
(* ChatAnalyzer.analyze_chat *)

\* message.get(key, default) for the string-valued keys
msg_get_from(message) ==
    IF "from" \in message.keys THEN message.from ELSE "Unknown"

is_voice(message) ==
    "media_type" \in message.keys /\ message.media_type = "voice_message"

\* sorted(data["messages"], key=parse_date(x['date'])): stable
RECURSIVE insert_sorted(_, _)
insert_sorted(sorted, m) ==
    IF sorted = <<>> THEN <<m>>
    ELSE IF parse_date(m.date).value < parse_date(Head(sorted).date).value
         THEN <<m>> \o sorted
         ELSE <<Head(sorted)>> \o insert_sorted(Tail(sorted), m)

RECURSIVE sorted_by_date(_)
sorted_by_date(ms) ==
    IF ms = <<>> THEN <<>>
    ELSE insert_sorted(sorted_by_date(SubSeq(ms, 1, Len(ms) - 1)), ms[Len(ms)])

\* the lambda of the nested defaultdict
new_stats == [messages |-> 0, words |-> 0, tokens |-> <<>>]

stats_at(counts, key) == IF key \in DOMAIN counts THEN counts[key] ELSE new_stats

put_stats(counts, key, stats) ==
    [k \in DOMAIN counts \cup {key} |-> IF k = key THEN stats ELSE counts[k]]

record_message_assign(counts, key) ==
    put_stats(counts, key, [stats_at(counts, key) EXCEPT !.messages = 1])

\* daily_counts[message_date][sender]['messages'] += 1
record_message(counts, key) ==
    put_stats(counts, key,
              [stats_at(counts, key) EXCEPT !.messages = @ + 1])

\* daily_counts[message_date][sender]['tokens'].extend(tokens)
record_tokens(counts, key, tokens) ==
    put_stats(counts, key,
              [stats_at(counts, key) EXCEPT !.tokens = @ \o tokens])

\* the evaluation of a non-voice message's text: the exception it raises,
\* or the string handed to the tokenizer
RECURSIVE join_segments(_)
join_segments(segs) ==
    IF segs = <<>> THEN <<>> ELSE Head(segs).text \o join_segments(Tail(segs))

inline_text(message) ==
    LET text == IF "text" \in message.keys THEN message.text ELSE TextStr(<<>>)
    IN  CASE text.shape = "list" ->
               IF \E n \in 1..Len(text.segs) :
                      text.segs[n].kind = "dict" /\ "text" \notin text.segs[n].keys
               THEN [raised |-> "KeyError", value |-> <<>>]
               ELSE [raised |-> "none", value |-> join_segments(text.segs)]
          [] text.shape = "str" ->
               [raised |-> "none", value |-> join_segments(text.segs)]
          [] OTHER ->
               [raised |-> "AttributeError", value |-> <<>>]

\* the variables of the other programs, which this run does not touch
DailyIdle ==
    /\ messages = <<>>
    /\ daily_counts = <<>>
    /\ voice_tasks = <<>>
    /\ j = 0

RollingIdle ==
    /\ messages_sorted = <<>>
    /\ start_date = 0
    /\ periods = <<>>
    /\ period_counts = <<>>
    /\ current_period = <<>>
    /\ current_period_end = 0

RankingIdle ==
    /\ all_tokens = <<>>
    /\ top_n = 0
    /\ top_words = <<>>

Init ==
    /\ data \in SeqsUpTo(Messages, MaxMsgs)
    /\ messages = <<>>
    /\ daily_counts = <<>>
    /\ unrecognized_voice_count = 0
    /\ voice_tasks = <<>>
    /\ i = 0
    /\ j = 0
    /\ pc = "load"
    /\ error = "none"
    /\ RollingIdle
    /\ RankingIdle

\* line 125: the sort raises as soon as one date does not parse
SortMessages ==
    /\ pc = "load"
    /\ IF \E n \in 1..Len(data) : parse_date(data[n].date).raised
       THEN /\ pc' = "aborted"
            /\ error' = "ValueError"
            /\ UNCHANGED messages
       ELSE /\ pc' = "ingest"
            /\ messages' = sorted_by_date(data)
            /\ UNCHANGED error
    /\ UNCHANGED <<data, daily_counts, unrecognized_voice_count, voice_tasks, i, j>>
    /\ UNCHANGED <<rolling_vars, ranking_vars>>

\* lines 132-148: one iteration of the first loop
IngestMessage ==
    /\ pc = "ingest"
    /\ i < Len(messages)
    /\ LET message      == messages[i + 1]
           message_date == date_of(parse_date(message.date).value)
           sender       == msg_get_from(message)
           key          == <<message_date, sender>>
           counted      == record_message(daily_counts, key)
           inline       == inline_text(message)
       IN  /\ i' = i + 1
           /\ IF is_voice(message)
              THEN IF "file" \in message.keys
                   THEN /\ voice_tasks' = Append(voice_tasks,
                                [message_date |-> message_date, sender |-> sender,
                                 voice_path |-> message.file])
                        /\ daily_counts' = counted
                        /\ UNCHANGED <<pc, error>>
                   ELSE /\ daily_counts' = counted
                        /\ pc' = "aborted"
                        /\ error' = "KeyError"
                        /\ UNCHANGED voice_tasks
              ELSE IF inline.raised # "none"
                   THEN /\ daily_counts' = counted
                        /\ pc' = "aborted"
                        /\ error' = inline.raised
                        /\ UNCHANGED voice_tasks
                   ELSE /\ daily_counts' = record_tokens(counted, key,
                                tokenize_and_lemmatize(inline.value))
                        /\ UNCHANGED <<pc, error, voice_tasks>>
    /\ UNCHANGED <<data, messages, unrecognized_voice_count, j>>
    /\ UNCHANGED <<rolling_vars, ranking_vars>>

\* the first loop is over
EndIngest ==
    /\ pc = "ingest"
    /\ i = Len(messages)
    /\ pc' = "merge"
    /\ UNCHANGED <<data, messages, daily_counts, unrecognized_voice_count,
                   voice_tasks, i, j, error>>
    /\ UNCHANGED <<rolling_vars, ranking_vars>>

next_task_reversed(tasks, done) == tasks[Len(tasks) - done]

\* the task the second loop awaits next
next_task(tasks, done) == tasks[done + 1]

\* lines 151-156: one iteration of the second loop
MergeVoice ==
    /\ pc = "merge"
    /\ j < Len(voice_tasks)
    /\ LET task   == next_task(voice_tasks, j)
           tokens == process_voice_message(task.voice_path)
       IN  IF tokens # <<>>
           THEN /\ daily_counts' = record_tokens(daily_counts,
                        <<task.message_date, task.sender>>, tokens)
                /\ UNCHANGED unrecognized_voice_count
           ELSE /\ unrecognized_voice_count' = unrecognized_voice_count + 1
                /\ UNCHANGED daily_counts
    /\ j' = j + 1
    /\ UNCHANGED <<data, messages, voice_tasks, i, pc, error>>
    /\ UNCHANGED <<rolling_vars, ranking_vars>>

\* line 158
Return ==
    /\ pc = "merge"
    /\ j = Len(voice_tasks)
    /\ pc' = "done"
    /\ UNCHANGED <<data, messages, daily_counts, unrecognized_voice_count,
                   voice_tasks, i, j, error>>
    /\ UNCHANGED <<rolling_vars, ranking_vars>>

Next ==
    \/ SortMessages
    \/ IngestMessage
    \/ EndIngest
    \/ MergeVoice
    \/ Return

Spec == Init /\ [][Next]_vars

-----------------------------------------------------------------------------
(* The rolling fixed-width script, src/main.py *)

days_per_period == 30

\* timedelta(days=days_per_period), in hours
period_width == days_per_period * HoursPerDay

RollDateStrings ==
    { [day |-> 1, hour |-> 10], [day |-> 20, hour |-> 0], [day |-> 31, hour |-> 10],
      [day |-> 62, hour |-> 0], [day |-> 95, hour |-> 0], [day |-> 1, hour |-> 24] }

RollContents ==
    { [keys |-> {"text"}, media_type |-> "", file |-> NoPath,
       text |-> TextStr(<<"Cats", "and">>)],
      [keys |-> {"text"}, media_type |-> "", file |-> NoPath,
       text |-> TextList(<<SegStr(<<"runs">>), SegEntity(<<"Cats">>)>>)],
      [keys |-> {"text"}, media_type |-> "", file |-> NoPath,
       text |-> TextOther],
      [keys |-> {"text", "media_type", "file"}, media_type |-> "voice_message",
       file |-> voice_ogg("1"), text |-> TextStr(<<>>)],
      [keys |-> {"text", "media_type", "file"}, media_type |-> "voice_message",
       file |-> voice_ogg("2"), text |-> TextStr(<<>>)],
      [keys |-> {"text", "media_type"}, media_type |-> "voice_message",
       file |-> NoPath, text |-> TextStr(<<>>)] }

RollFroms == { [has |-> TRUE, name |-> "A"], [has |-> FALSE, name |-> ""] }

RollMessages ==
    { [keys       |-> c.keys \cup {"date"} \cup (IF f.has THEN {"from"} ELSE {}),
       date       |-> d,
       from       |-> f.name,
       media_type |-> c.media_type,
       file       |-> c.file,
       text       |-> c.text] : d \in RollDateStrings, f \in RollFroms, c \in RollContents }

\* parse_date of the script: strptime, uncaught
roll_parse_date(date_str) ==
    IF strptime_ok(date_str)
    THEN [raised |-> FALSE, value |-> date_str.day * HoursPerDay + date_str.hour]
    ELSE [raised |-> TRUE,  value |-> 0]

RECURSIVE roll_insert_sorted(_, _)
roll_insert_sorted(sorted, m) ==
    IF sorted = <<>> THEN <<m>>
    ELSE IF roll_parse_date(m.date).value < roll_parse_date(Head(sorted).date).value
         THEN <<m>> \o sorted
         ELSE <<Head(sorted)>> \o roll_insert_sorted(Tail(sorted), m)

\* sorted(messages, key=parse_date(x['date']))
RECURSIVE roll_sorted(_)
roll_sorted(ms) ==
    IF ms = <<>> THEN <<>>
    ELSE roll_insert_sorted(roll_sorted(SubSeq(ms, 1, Len(ms) - 1)), ms[Len(ms)])

\* count_words: the number of words, or the exception raised
count_words(text) ==
    CASE text.shape = "list" ->
           IF \E n \in 1..Len(text.segs) :
                  text.segs[n].kind = "dict" /\ "text" \notin text.segs[n].keys
           THEN [raised |-> "KeyError", value |-> 0]
           ELSE [raised |-> "none", value |-> Len(join_segments(text.segs))]
      [] text.shape = "str" ->
           [raised |-> "none", value |-> Len(join_segments(text.segs))]
      [] OTHER ->
           [raised |-> "AttributeError", value |-> 0]

\* the lambda of period_count
new_period_stats == [messages |-> 0, words |-> 0]

period_stats_at(count, sender) ==
    IF sender \in DOMAIN count THEN count[sender] ELSE new_period_stats

put_period_stats(count, sender, stats) ==
    [s \in DOMAIN count \cup {sender} |-> IF s = sender THEN stats ELSE count[s]]

add_message(count, sender) ==
    put_period_stats(count, sender,
                     [period_stats_at(count, sender) EXCEPT !.messages = @ + 1])

add_words(count, sender, n) ==
    put_period_stats(count, sender,
                     [period_stats_at(count, sender) EXCEPT !.words = @ + n])

\* lines 62-78: the body of the inner loop for one msg; acc carries
\* period_count, unrecognized_voice_count and the exception that escaped
count_msg(acc, msg) ==
    IF acc.raised # "none" THEN acc
    ELSE IF "from" \notin msg.keys
    THEN acc                                        \* KeyError: pass
    ELSE LET counted == add_message(acc.count, msg.from)
         IN  IF "media_type" \in msg.keys /\ msg.media_type = "voice_message"
             THEN IF "file" \notin msg.keys
                  THEN [acc EXCEPT !.count = counted]          \* KeyError: pass
                  ELSE IF isfile(txt_path_of(msg.file))
                       THEN [acc EXCEPT !.count =
                                add_words(counted, msg.from,
                                          Len(read_file(txt_path_of(msg.file))))]
                       ELSE [acc EXCEPT !.count = counted, !.unrecognized = @ + 1]
             ELSE IF "text" \notin msg.keys
                  THEN [acc EXCEPT !.count = counted]          \* KeyError: pass
                  ELSE LET words == count_words(msg.text)
                       IN  CASE words.raised = "none" ->
                                  [acc EXCEPT !.count =
                                      add_words(counted, msg.from, words.value)]
                             [] words.raised = "KeyError" ->
                                  [acc EXCEPT !.count = counted]
                             [] OTHER ->
                                  [acc EXCEPT !.count = counted,
                                              !.raised = words.raised]

\* lines 60-78: period_count of a finished period
RECURSIVE count_period(_, _)
count_period(acc, msgs) ==
    IF msgs = <<>> THEN acc
    ELSE count_period(count_msg(acc, Head(msgs)), Tail(msgs))

\* line 82: the boundary moves by one width
advance_period_end(end, message_date) == end + period_width

\* line 85
period_label(k) == start_date + period_width * k

RollInit ==
    /\ data \in SeqsUpTo(RollMessages, MaxRollMsgs)
    /\ unrecognized_voice_count = 0
    /\ i = 0
    /\ pc = "load"
    /\ error = "none"
    /\ RollingIdle
    /\ DailyIdle
    /\ RankingIdle

\* lines 44-51
RollSort ==
    /\ pc = "load"
    /\ IF \E n \in 1..Len(data) : roll_parse_date(data[n].date).raised
       THEN /\ pc' = "aborted"
            /\ error' = "ValueError"
            /\ UNCHANGED <<messages_sorted, start_date, current_period_end>>
       ELSE IF data = <<>>
       THEN /\ pc' = "aborted"
            /\ error' = "IndexError"
            /\ UNCHANGED <<messages_sorted, start_date, current_period_end>>
       ELSE /\ pc' = "periods"
            /\ messages_sorted' = roll_sorted(data)
            /\ start_date' = roll_parse_date(roll_sorted(data)[1].date).value
            /\ current_period_end' =
                  roll_parse_date(roll_sorted(data)[1].date).value + period_width
            /\ UNCHANGED error
    /\ UNCHANGED <<data, i, unrecognized_voice_count, periods, period_counts,
                   current_period, daily_vars, ranking_vars>>

\* lines 53-82: one iteration of the loop over messages_sorted
RollMessage ==
    /\ pc = "periods"
    /\ i < Len(messages_sorted)
    /\ LET message      == messages_sorted[i + 1]
           message_date == roll_parse_date(message.date).value
           counted      == count_period([count |-> <<>>,
                                         unrecognized |-> unrecognized_voice_count,
                                         raised |-> "none"],
                                        current_period)
       IN  /\ i' = i + 1
           /\ IF message_date < current_period_end
              THEN /\ current_period' = Append(current_period, message)
                   /\ UNCHANGED <<periods, period_counts, current_period_end,
                                  unrecognized_voice_count, pc, error>>
              ELSE /\ periods' = Append(periods, current_period)
                   /\ unrecognized_voice_count' = counted.unrecognized
                   /\ IF counted.raised # "none"
                      THEN /\ pc' = "aborted"
                           /\ error' = counted.raised
                           /\ UNCHANGED <<period_counts, current_period,
                                          current_period_end>>
                      ELSE /\ period_counts' = Append(period_counts, counted.count)
                           /\ current_period' = <<message>>
                           /\ current_period_end' =
                                 advance_period_end(current_period_end, message_date)
                           /\ UNCHANGED <<pc, error>>
    /\ UNCHANGED <<data, messages_sorted, start_date, daily_vars, ranking_vars>>

\* lines 84-96: the loop is over; the statistics are read from period_counts
RollReport ==
    /\ pc = "periods"
    /\ i = Len(messages_sorted)
    /\ pc' = "done"
    /\ UNCHANGED <<data, i, error, unrecognized_voice_count, rolling_vars,
                   daily_vars, ranking_vars>>

RollNext ==
    \/ RollSort
    \/ RollMessage
    \/ RollReport

SpecRolling == RollInit /\ [][RollNext]_vars

-----------------------------------------------------------------------------
(* main: the top words of one day, Counter(all_tokens).most_common(5) *)

TopWordsPerDay == 5

RankTokens == {"a", "b", "c", "d", "e", "f"}

\* Counter(tokens): the (token, count) items in the order the tokens were
\* first inserted
RECURSIVE Counter(_)
Counter(tokens) ==
    IF tokens = <<>> THEN <<>>
    ELSE LET init == Counter(SubSeq(tokens, 1, Len(tokens) - 1))
             tok  == tokens[Len(tokens)]
         IN  IF \E n \in 1..Len(init) : init[n][1] = tok
             THEN [n \in 1..Len(init) |->
                      IF init[n][1] = tok THEN <<tok, init[n][2] + 1>> ELSE init[n]]
             ELSE Append(init, <<tok, 1>>)

comes_before_unstable(item, other) == item[2] >= other[2]

\* the order of sorted(items, key=count, reverse=True): an item moves ahead
\* of another only with a strictly larger count
comes_before(item, other) == item[2] > other[2]

RECURSIVE insert_by_count(_, _)
insert_by_count(sorted, item) ==
    IF sorted = <<>> THEN <<item>>
    ELSE IF comes_before(item, Head(sorted))
         THEN <<item>> \o sorted
         ELSE <<Head(sorted)>> \o insert_by_count(Tail(sorted), item)

RECURSIVE sorted_by_count(_)
sorted_by_count(items) ==
    IF items = <<>> THEN <<>>
    ELSE insert_by_count(sorted_by_count(SubSeq(items, 1, Len(items) - 1)),
                         items[Len(items)])

\* Counter.most_common(n) = heapq.nlargest(n, items, key=count)
\*                        = sorted(items, key=count, reverse=True)[:n]
most_common(counter, n) ==
    LET ranked == sorted_by_count(counter)
    IN  SubSeq(ranked, 1, IF n < Len(ranked) THEN n ELSE Len(ranked))

RankInit ==
    /\ all_tokens \in SeqsUpTo(RankTokens, MaxTokens)
    /\ top_n \in {2, TopWordsPerDay}
    /\ top_words = <<>>
    /\ pc = "tokens"
    /\ data = <<>>
    /\ i = 0
    /\ error = "none"
    /\ unrecognized_voice_count = 0
    /\ DailyIdle
    /\ RollingIdle

\* lines 203-204
RankDay ==
    /\ pc = "tokens"
    /\ top_words' = most_common(Counter(all_tokens), top_n)
    /\ pc' = "ranked"
    /\ UNCHANGED <<all_tokens, top_n, data, i, error, unrecognized_voice_count,
                   daily_vars, rolling_vars>>

RankNext == RankDay

SpecRank == RankInit /\ [][RankNext]_vars

-----------------------------------------------------------------------------
(* Properties of the calendar-day pipeline *)

Senders == {"A", "Unknown"}

Days == { date_of(parse_date(d).value) : d \in { x \in DateStrings : strptime_ok(x) } }

day_of_msg(message) == date_of(parse_date(message.date).value)

key_of_msg(message) == <<day_of_msg(message), msg_get_from(message)>>

all_dates_parse == \A n \in 1..Len(data) : strptime_ok(data[n].date)

voice_without_file(message) == is_voice(message) /\ "file" \notin message.keys

transcript_missing(message) == ~isfile(txt_path_of(message.file))

\* the inline tokens of the first n messages of ms that fall under key, in order
RECURSIVE inline_tokens(_, _, _)
inline_tokens(ms, n, key) ==
    IF n = 0 THEN <<>>
    ELSE inline_tokens(ms, n - 1, key) \o
         (IF key_of_msg(ms[n]) = key /\ ~is_voice(ms[n])
          THEN tokenize_and_lemmatize(inline_text(ms[n]).value)
          ELSE <<>>)

\* the voice messages of ms, in order
RECURSIVE voice_msgs(_)
voice_msgs(ms) ==
    IF ms = <<>> THEN <<>>
    ELSE (IF is_voice(Head(ms)) THEN <<Head(ms)>> ELSE <<>>) \o voice_msgs(Tail(ms))

\* the transcript tokens of the first n voice messages vs that fall under key
RECURSIVE voice_tokens(_, _, _)
voice_tokens(vs, n, key) ==
    IF n = 0 THEN <<>>
    ELSE voice_tokens(vs, n - 1, key) \o
         (IF key_of_msg(vs[n]) = key
          THEN process_voice_message(vs[n].file)
          ELSE <<>>)

messages_row(day) ==
    [s \in Senders |-> stats_at(daily_counts, <<day, s>>).messages]

\* C1: every (bucket, sender) record has words equal to the length of tokens,
\* after every mutation and at the end of the run.
CE_C1_WordsEqualsTokenCount ==
    \A k \in DOMAIN daily_counts :
        daily_counts[k].words = Len(daily_counts[k].tokens)

\* C2: every message taken by the first loop is counted exactly once, under its
\* date and its sender ("Unknown" when `from` is missing), voice or not; so for
\* every bucket the sum over senders of the message counts is the number of
\* messages of that date, and when the run returns that is every message of
\* the batch.
Thm_C2_MessagesCountedOnce ==
    /\ DOMAIN daily_counts \subseteq Days \X Senders
    /\ \A day \in Days :
        /\ \A s \in Senders :
              stats_at(daily_counts, <<day, s>>).messages =
                  Cardinality({ n \in 1..i : key_of_msg(messages[n]) = <<day, s>> })
        /\ SetSum(Senders, messages_row(day)) =
              Cardinality({ n \in 1..i : day_of_msg(messages[n]) = day })
        /\ pc = "done" =>
              SetSum(Senders, messages_row(day)) =
                  Cardinality({ n \in 1..Len(data) : day_of_msg(data[n]) = day })

Wit_C2_UnknownAndVoiceCounted ==
    /\ pc = "done"
    /\ Len(data) = 2
    /\ \E n \in 1..2 : "from" \notin data[n].keys
    /\ \E n \in 1..2 : is_voice(data[n]) /\ transcript_missing(data[n])
    /\ \E day \in Days :
          /\ stats_at(daily_counts, <<day, "Unknown">>).messages = 1
          /\ SetSum(Senders, messages_row(day)) = 2

CE_C6_CounterCountsMissingTranscripts ==
    pc = "done" =>
        unrecognized_voice_count =
            Cardinality({ n \in 1..Len(messages) :
                            is_voice(messages[n]) /\ transcript_missing(messages[n]) })

\* C7: a batch whose only anomaly is a voice message without `file` never
\* aborts the run.
CE_C7_VoiceWithoutFileDoesNotAbort ==
    (/\ all_dates_parse
     /\ \A n \in 1..Len(data) :
            is_voice(data[n]) \/ inline_text(data[n]).raised = "none")
    => pc # "aborted"

\* C8: a batch whose only anomaly is a non-voice text of another shape never
\* aborts the run.
CE_C8_OddTextDoesNotAbort ==
    (/\ all_dates_parse
     /\ \A n \in 1..Len(data) : ~voice_without_file(data[n]))
    => pc # "aborted"

\* C9: no voice tokens are merged while the first loop runs; afterwards the
\* token sequence of every (bucket, sender) is its inline tokens in message
\* order followed by the transcripts of its voice messages awaited so far, in
\* message order; so the final sequences are a function of the batch alone.
Thm_C9_VoiceMergedAfterIngestInOrder ==
    \A day \in Days : \A s \in Senders :
        LET key    == <<day, s>>
            tokens == stats_at(daily_counts, key).tokens
        IN  /\ pc = "ingest" =>
                  /\ j = 0
                  /\ tokens = inline_tokens(messages, i, key)
            /\ pc \in {"merge", "done"} =>
                  /\ i = Len(messages)
                  /\ tokens = inline_tokens(messages, Len(messages), key)
                                \o voice_tokens(voice_msgs(messages), j, key)
            /\ pc = "done" =>
                  /\ j = Len(voice_msgs(messages))
                  /\ tokens = inline_tokens(sorted_by_date(data), Len(data), key)
                                \o voice_tokens(voice_msgs(sorted_by_date(data)),
                                                Len(voice_msgs(data)), key)

Wit_C9_TwoTranscriptsOneRecord ==
    /\ pc = "done"
    /\ Len(voice_tasks) = 2
    /\ voice_tasks[1].message_date = voice_tasks[2].message_date
    /\ voice_tasks[1].sender = voice_tasks[2].sender
    /\ process_voice_message(voice_tasks[1].voice_path) # <<>>
    /\ process_voice_message(voice_tasks[2].voice_path) # <<>>
    /\ process_voice_message(voice_tasks[1].voice_path)
          # process_voice_message(voice_tasks[2].voice_path)

-----------------------------------------------------------------------------
(* Properties of the rolling script *)

roll_ts(message) == roll_parse_date(message.date).value

in_period(message, k) ==
    /\ period_label(k) <= roll_ts(message)
    /\ roll_ts(message) < period_label(k + 1)

period_messages(count) ==
    SetSum(DOMAIN count, [s \in DOMAIN count |-> count[s].messages])

RECURSIVE total_messages(_)
total_messages(counts) ==
    IF counts = <<>> THEN 0
    ELSE period_messages(Head(counts)) + total_messages(Tail(counts))

\* C3: every message lies within the bounds of the period it is placed in:
\* the k-th finished period (labelled start + k*width) and the open period
\* hold only messages with start + k*width <= t < start + (k+1)*width.
CE_C3_MessagesWithinPeriodBounds ==
    pc \in {"periods", "done"} =>
        /\ \A k \in 1..Len(periods) : \A n \in 1..Len(periods[k]) :
              in_period(periods[k][n], k - 1)
        /\ \A n \in 1..Len(current_period) :
              in_period(current_period[n], Len(periods))

\* C4: when the run is over, the message counts of period_counts add up to
\* the number of messages of the batch.
CE_C4_EveryMessageInPeriodCounts ==
    pc = "done" => total_messages(period_counts) = Len(data)

-----------------------------------------------------------------------------
(* Properties of the ranking *)

frequency(tok, tokens) == Cardinality({ n \in 1..Len(tokens) : tokens[n] = tok })

first_occurrence(tok, tokens) ==
    CHOOSE n \in 1..Len(tokens) :
        tokens[n] = tok /\ \A m \in 1..(n - 1) : tokens[m] # tok

distinct_tokens(tokens) == { tokens[n] : n \in 1..Len(tokens) }

\* (tok, count) ranks ahead of (other, count2) in the claimed order
ranks_ahead(tok, other, tokens) ==
    \/ frequency(tok, tokens) > frequency(other, tokens)
    \/ /\ frequency(tok, tokens) = frequency(other, tokens)
       /\ first_occurrence(tok, tokens) < first_occurrence(other, tokens)

\* C10: the ranking of a token sequence has at most K entries (K of them when
\* there are that many distinct tokens), each a token of the sequence with its
\* frequency, in descending frequency with ties in order of first occurrence,
\* and no token left out ranks ahead of one that is in; [a, b, a, b] with
\* K = 2 gives [(a, 2), (b, 2)].
Thm_C10_TopKStableByFirstOccurrence ==
    pc = "ranked" =>
        /\ Len(top_words) <= top_n
        /\ Len(top_words) = top_n \/ Len(top_words) = Cardinality(distinct_tokens(all_tokens))
        /\ \A n \in 1..Len(top_words) :
              /\ top_words[n][1] \in distinct_tokens(all_tokens)
              /\ top_words[n][2] = frequency(top_words[n][1], all_tokens)
        /\ \A n \in 1..Len(top_words) : \A m \in (n + 1)..Len(top_words) :
              ranks_ahead(top_words[n][1], top_words[m][1], all_tokens)
        /\ \A tok \in distinct_tokens(all_tokens) :
              (\A n \in 1..Len(top_words) : top_words[n][1] # tok) =>
                  \A n \in 1..Len(top_words) :
                      ranks_ahead(top_words[n][1], tok, all_tokens)
        /\ (all_tokens = <<"a", "b", "a", "b">> /\ top_n = 2) =>
              top_words = << <<"a", 2>>, <<"b", 2>> >>
        /\ (all_tokens = <<"b", "a", "b", "a">> /\ top_n = 2) =>
              top_words = << <<"b", 2>>, <<"a", 2>> >>

\* a tie at the cut: six distinct tokens, five kept, the last one seen dropped
Wit_C10_TieAtTheCut ==
    /\ pc = "ranked"
    /\ top_n = TopWordsPerDay
    /\ all_tokens = <<"f", "e", "d", "c", "b", "a">>
    /\ top_words = << <<"f", 1>>, <<"e", 1>>, <<"d", 1>>, <<"c", 1>>, <<"b", 1>> >>

====
